---- MODULE Spec2Model ----
(***************************************************************************)
(* Model of react/features/prejoin/components/Prejoin.js: the Prejoin      *)
(* component, its local state, its handlers, its render() conditions and   *)
(* the mapStateToProps projection of the redux store.                      *)
(*                                                                         *)
(* A handler is modelled by the ordered list of effects it performs: a     *)
(* dispatched redux action or a setState on the component.  One action of  *)
(* the model is one whole handler invocation followed by the re-projection *)
(* of the store into the props (connect).                                  *)
(*                                                                         *)
(* A handler is enabled when render() passes it to a child that is on the  *)
(* screen.  Under Spec the content of the InlineDialog, and its onClose,   *)
(* are live only while isOpen is true.  SpecCalls adds the call of         *)
(* _showDialog from any state in which render() builds the phone option,   *)
(* open or not.                                                            *)
(***************************************************************************)
EXTENDS Naturals, Sequences, FiniteSets, TLC

VARIABLES
    store,      \* the part of the redux state mapStateToProps reads
    props,      \* this.props
    state,      \* this.state
    handler,    \* the handler that ran last
    effects,    \* what it did, in order
    hist        \* the last MaxHist invocations: handler and values before it

vars == <<store, props, state, handler, effects, hist>>

\* number of past handler invocations remembered
MaxHist == 2

\* display names the user can type; "" is the empty input
Names == {"", " ", "Alice"}

-----------------------------------------------------------------------------
(* Effects: redux actions and setState calls.                              *)

Dispatch(type, flag, text) ==
    [kind |-> "dispatch", type |-> type, flag |-> flag, text |-> text]

SetState(showJoinByPhoneButtons) ==
    [kind |-> "setState", type |-> "showJoinByPhoneButtons",
     flag |-> showJoinByPhoneButtons, text |-> ""]

joinConferenceAction == Dispatch("joinConference", FALSE, "")

joinConferenceWithoutAudioAction == Dispatch("joinConferenceWithoutAudio", FALSE, "")

setSkipPrejoinAction(value) == Dispatch("setSkipPrejoin", value, "")

setJoinByPhoneDialogVisiblityAction(value) ==
    Dispatch("setJoinByPhoneDialogVisiblity", value, "")

updateSettings(displayName) == Dispatch("updateSettings", FALSE, displayName)

-----------------------------------------------------------------------------
(* The store: what the reducers do with the five actions.                  *)

reducer(s, a) ==
    IF a.kind # "dispatch" THEN s
    ELSE IF a.type = "updateSettings" THEN [s EXCEPT !.displayName = a.text]
    ELSE IF a.type = "setSkipPrejoin" THEN [s EXCEPT !.skipPrejoin = a.flag]
    ELSE IF a.type = "setJoinByPhoneDialogVisiblity"
         THEN [s EXCEPT !.showDialog = a.flag]
    ELSE s

\* JavaScript !name for a string
NotName(name) == name = ""

mapStateToPropsNoRequired(s) ==
    [ buttonIsToggled      |-> s.skipPrejoin,
      joinButtonDisabled   |-> NotName(s.displayName),
      name                 |-> s.displayName,
      deviceStatusVisible  |-> s.deviceStatusVisible,
      showDialog           |-> s.showDialog,
      hasJoinByPhoneButton |-> s.joinByPhoneButtonVisible ]

mapStateToProps(s) ==
    [ buttonIsToggled      |-> s.skipPrejoin,
      joinButtonDisabled   |-> s.displayNameRequired /\ NotName(s.displayName),
      name                 |-> s.displayName,
      deviceStatusVisible  |-> s.deviceStatusVisible,
      showDialog           |-> s.showDialog,
      hasJoinByPhoneButton |-> s.joinByPhoneButtonVisible ]

\* connect(): the projected props merged with the prop the parent passes
connect(s, showJoinActions) ==
    [ p \in DOMAIN mapStateToProps(s) \cup {"showJoinActions"} |->
        IF p = "showJoinActions" THEN showJoinActions ELSE mapStateToProps(s)[p] ]

defaultProps == [showJoinActions |-> TRUE]

-----------------------------------------------------------------------------
(* The handlers of the component, as the effects they perform.             *)

_onToggleButtonClickSame(p) == << setSkipPrejoinAction(p.buttonIsToggled) >>

_onToggleButtonClick(p) == << setSkipPrejoinAction(~p.buttonIsToggled) >>

_onDropdownCloseNothing == << >>

_onDropdownClose == << SetState(FALSE) >>

_onOptionsClickOpen(st) == << SetState(TRUE) >>

_onOptionsClick(st) == << SetState(~st.showJoinByPhoneButtons) >>

_setName(displayName) == << updateSettings(displayName) >>

_closeDialogAndDropdown == << setJoinByPhoneDialogVisiblityAction(FALSE) >> \o _onDropdownClose

_closeDialog == << setJoinByPhoneDialogVisiblityAction(FALSE) >>

_showDialogToggle(st) == << setJoinByPhoneDialogVisiblityAction(TRUE) >> \o _onOptionsClick(st)

_showDialog(st) == << setJoinByPhoneDialogVisiblityAction(TRUE) >> \o _onDropdownClose

-----------------------------------------------------------------------------
(* render(): which children exist, and so which handlers can be invoked.   *)

JoinActionsRenderedAlways(p) == TRUE

\* {showJoinActions && ( ... InputField, InlineDialog, ActionButton ... )}
JoinActionsRendered(p) == p.showJoinActions

PhoneOptionRenderedAlways(p) == JoinActionsRendered(p)

\* {hasJoinByPhoneButton && <div onClick = { _showDialog }>}
PhoneOptionRendered(p) == JoinActionsRendered(p) /\ p.hasJoinByPhoneButton

DialogRenderedInJoinActions(p) == JoinActionsRendered(p) /\ p.showDialog

\* <InlineDialog isOpen = { showJoinByPhoneButtons }>
DropdownOpen(p, st) == JoinActionsRendered(p) /\ st.showJoinByPhoneButtons

\* { showDialog && <JoinByPhoneDialog ... /> }
DialogRendered(p) == p.showDialog

\* _renderFooter
DeviceStatusRendered(p) == p.deviceStatusVisible

\* ActionButton with disabled = { joinButtonDisabled }: its onClick is dead
ActionButtonClickable(p) == ~p.joinButtonDisabled

-----------------------------------------------------------------------------
(* Running a handler.                                                      *)

RECURSIVE RunStore(_, _)
RunStore(s, es) ==
    IF es = << >> THEN s ELSE RunStore(reducer(s, Head(es)), Tail(es))

setState(st, e) ==
    IF e.kind = "setState" THEN [st EXCEPT !.showJoinByPhoneButtons = e.flag] ELSE st

RECURSIVE RunState(_, _)
RunState(st, es) ==
    IF es = << >> THEN st ELSE RunState(setState(st, Head(es)), Tail(es))

Push(h, e) ==
    IF Len(h) < MaxHist THEN Append(h, e) ELSE Append(Tail(h), e)

Invoke(name, es) ==
    /\ handler' = name
    /\ effects' = es
    /\ store' = RunStore(store, es)
    /\ state' = RunState(state, es)
    /\ props' = connect(RunStore(store, es), props.showJoinActions)
    /\ hist' = Push(hist, [ handler |-> name,
                            open    |-> state.showJoinByPhoneButtons,
                            toggled |-> props.buttonIsToggled ])

-----------------------------------------------------------------------------
(* The state after construction: the component is mounted over any store   *)
(* whose phone dialog is hidden, with the dropdown closed.                 *)

Stores ==
    [ displayName              : Names,
      displayNameRequired      : BOOLEAN,
      skipPrejoin              : BOOLEAN,
      showDialog               : {FALSE},
      joinByPhoneButtonVisible : BOOLEAN,
      deviceStatusVisible      : BOOLEAN ]

Init ==
    /\ store \in Stores
    /\ \E showJoinActions \in {defaultProps.showJoinActions, FALSE} :
          props = connect(store, showJoinActions)
    /\ state = [showJoinByPhoneButtons |-> FALSE]
    /\ handler = "constructor"
    /\ effects = << >>
    /\ hist = << >>

-----------------------------------------------------------------------------
(* User actions.                                                           *)

\* ToggleButton onClick = { this._onToggleButtonClick }
ToggleButtonClick ==
    Invoke("_onToggleButtonClick", _onToggleButtonClick(props))

\* InlineDialog onClose = { _onDropdownClose }
DropdownClose ==
    /\ DropdownOpen(props, state)
    /\ Invoke("_onDropdownClose", _onDropdownClose)

\* ActionButton onOptionsClick = { _onOptionsClick }; the options are taken to
\* be live whether or not the button is disabled
OptionsClick ==
    /\ JoinActionsRendered(props)
    /\ Invoke("_onOptionsClick", _onOptionsClick(state))

\* InputField onChange = { _setName }
NameChange ==
    /\ JoinActionsRendered(props)
    /\ \E displayName \in Names : Invoke("_setName", _setName(displayName))

\* InputField onSubmit = { joinConference }
NameSubmit ==
    /\ JoinActionsRendered(props)
    /\ Invoke("InputField.onSubmit", << joinConferenceAction >>)

\* ActionButton onClick = { joinConference }
JoinClick ==
    /\ JoinActionsRendered(props)
    /\ ActionButtonClickable(props)
    /\ Invoke("ActionButton.onClick", << joinConferenceAction >>)

\* dropdown entry onClick = { joinConferenceWithoutAudio }
DropdownJoinWithoutAudio ==
    /\ DropdownOpen(props, state)
    /\ Invoke("dropdown.joinConferenceWithoutAudio", << joinConferenceWithoutAudioAction >>)

\* dropdown entry onClick = { _showDialog }
ShowDialog ==
    /\ PhoneOptionRendered(props)
    /\ DropdownOpen(props, state)
    /\ Invoke("_showDialog", _showDialog(state))

\* this._showDialog() on the mounted component, dropdown open or closed
ShowDialogCall ==
    /\ PhoneOptionRendered(props)
    /\ Invoke("_showDialog", _showDialog(state))

\* JoinByPhoneDialog onClose = { _closeDialog }
CloseDialog ==
    /\ DialogRendered(props)
    /\ Invoke("_closeDialog", _closeDialog)

\* JoinByPhoneDialog joinConferenceWithoutAudio = { joinConferenceWithoutAudio }
DialogJoinWithoutAudio ==
    /\ DialogRendered(props)
    /\ Invoke("dialog.joinConferenceWithoutAudio", << joinConferenceWithoutAudioAction >>)

-----------------------------------------------------------------------------
(* Changes of the props from outside: the store changes a flag no handler  *)
(* of this component writes, or the parent passes another showJoinActions. *)

ExternalFlags == {"displayNameRequired", "joinByPhoneButtonVisible", "deviceStatusVisible"}

PropsChange ==
    /\ \/ \E f \in ExternalFlags :
             /\ store' = [store EXCEPT ![f] = ~store[f]]
             /\ props' = connect(store', props.showJoinActions)
       \/ /\ store' = store
          /\ props' = connect(store, ~props.showJoinActions)
    /\ state' = state
    /\ handler' = "componentDidUpdate"
    /\ effects' = << >>
    /\ hist' = Push(hist, [ handler |-> "componentDidUpdate",
                            open    |-> state.showJoinByPhoneButtons,
                            toggled |-> props.buttonIsToggled ])

Next ==
    \/ ToggleButtonClick
    \/ DropdownClose
    \/ OptionsClick
    \/ NameChange
    \/ NameSubmit
    \/ JoinClick
    \/ DropdownJoinWithoutAudio
    \/ ShowDialog
    \/ CloseDialog
    \/ DialogJoinWithoutAudio
    \/ PropsChange

Spec == Init /\ [][Next]_vars

NextCalls == Next \/ ShowDialogCall

SpecCalls == Init /\ [][NextCalls]_vars

TypeOK ==
    /\ store \in [ displayName : Names, displayNameRequired : BOOLEAN,
                   skipPrejoin : BOOLEAN, showDialog : BOOLEAN,
                   joinByPhoneButtonVisible : BOOLEAN, deviceStatusVisible : BOOLEAN ]
    /\ state \in [showJoinByPhoneButtons : BOOLEAN]
    /\ Len(hist) <= MaxHist

-----------------------------------------------------------------------------
(* Observations used by the properties.                                    *)

Dispatched(es, type) ==
    \E i \in 1..Len(es) : es[i].kind = "dispatch" /\ es[i].type = type

DispatchedFlag(es, type, flag) ==
    \E i \in 1..Len(es) :
        es[i].kind = "dispatch" /\ es[i].type = type /\ es[i].flag = flag

\* the n-th most recent invocation (1 = the last one)
Past(n) == hist[Len(hist) + 1 - n]

JoinControlHandlers == {"ActionButton.onClick", "InputField.onSubmit"}

JoinActionsHandlers ==
    { "_setName", "InputField.onSubmit", "ActionButton.onClick",
      "dropdown.joinConferenceWithoutAudio", "_showDialog",
      "_onOptionsClick", "_onDropdownClose" }

DropdownPreservingHandlers ==
    { "_setName", "InputField.onSubmit", "ActionButton.onClick",
      "dropdown.joinConferenceWithoutAudio", "dialog.joinConferenceWithoutAudio",
      "_onToggleButtonClick", "_closeDialog", "componentDidUpdate" }

-----------------------------------------------------------------------------
\* C1: every invocation of _showDialog, whatever the dropdown flag was,
\* first dispatches setJoinByPhoneDialogVisiblity(true) and then closes the
\* dropdown; afterwards the dropdown is closed and the dialog is visible.
C1_ShowDialogClosesDropdown ==
    [][ handler' = "_showDialog" =>
          /\ effects' = << setJoinByPhoneDialogVisiblityAction(TRUE), SetState(FALSE) >>
          /\ ~state'.showJoinByPhoneButtons
          /\ props'.showDialog ]_vars

\* _showDialog has run from an open dropdown and then from a closed one
C1_Witness ==
    /\ Len(hist) >= 2
    /\ Past(2).handler = "_showDialog" /\ Past(2).open
    /\ Past(1).handler = "_showDialog" /\ ~Past(1).open
    /\ ~state.showJoinByPhoneButtons /\ props.showDialog

\* C2 as stated: the dropdown is never open while the phone dialog is
\* visible, in any state the user's actions can reach.
C2_NeverBothShown ==
    ~(state.showJoinByPhoneButtons /\ props.showDialog)

\* C2 amended: the dialog never becomes visible with the dropdown open, and
\* dropdown and dialog come to be shown together only by an options click
\* made while the dialog is visible.
C2_BothShownOnlyByOptionsClick ==
    [][ (state'.showJoinByPhoneButtons /\ props'.showDialog) =>
          \/ state.showJoinByPhoneButtons /\ props.showDialog
          \/ /\ handler' = "_onOptionsClick"
             /\ props.showDialog
             /\ ~state.showJoinByPhoneButtons ]_vars

\* the dialog was opened from an open dropdown, then the options were clicked
C2_Witness ==
    /\ Len(hist) >= 2
    /\ Past(2).handler = "_showDialog" /\ Past(2).open
    /\ Past(1).handler = "_onOptionsClick" /\ ~Past(1).open
    /\ state.showJoinByPhoneButtons /\ props.showDialog

\* C3: while joinButtonDisabled is true, neither the join button nor the
\* submission of the name input dispatches joinConference.
C3_NoJoinWhileDisabled ==
    [][ (props.joinButtonDisabled /\ handler' \in JoinControlHandlers) =>
          ~Dispatched(effects', "joinConference") ]_vars

\* C4: one options click negates the dropdown flag, two consecutive options
\* clicks restore it.
C4_OptionsClickToggles ==
    /\ (Len(hist) >= 1 /\ Past(1).handler = "_onOptionsClick") =>
          state.showJoinByPhoneButtons = ~Past(1).open
    /\ (/\ Len(hist) >= 2
        /\ Past(1).handler = "_onOptionsClick"
        /\ Past(2).handler = "_onOptionsClick") =>
          state.showJoinByPhoneButtons = Past(2).open

\* two consecutive options clicks on an open dropdown
C4_Witness ==
    /\ Len(hist) >= 2
    /\ Past(1).handler = "_onOptionsClick" /\ ~Past(1).open
    /\ Past(2).handler = "_onOptionsClick" /\ Past(2).open
    /\ state.showJoinByPhoneButtons

\* C5: joinButtonDisabled is true exactly when a display name is required
\* and the current name is empty, and a name edit arrives unchanged in the
\* name prop.
C5_JoinDisabledIffRequiredAndEmpty ==
    /\ props.joinButtonDisabled <=> (store.displayNameRequired /\ props.name = "")
    /\ (store.displayNameRequired /\ props.name = "") => props.joinButtonDisabled
    /\ (store.displayNameRequired /\ props.name = "Alice") => ~props.joinButtonDisabled
    /\ ~store.displayNameRequired => ~props.joinButtonDisabled
    /\ handler = "_setName" =>
          /\ Len(effects) = 1
          /\ effects[1] = updateSettings(effects[1].text)
          /\ props.name = effects[1].text

\* the required name was edited twice and is now "Alice"
C5_Witness ==
    /\ Len(hist) >= 2
    /\ Past(2).handler = "_setName"
    /\ handler = "_setName"
    /\ store.displayNameRequired
    /\ props.name = "Alice"
    /\ ~props.joinButtonDisabled

\* C6: while showJoinActions is false no handler of the name input, the
\* join button or the dropdown runs: nothing dispatches updateSettings,
\* joinConference or setJoinByPhoneDialogVisiblity(true), the dropdown does
\* not dispatch joinConferenceWithoutAudio, and the dropdown flag is kept.
C6_NoJoinActionsWhenHidden ==
    [][ ~props.showJoinActions =>
          /\ handler' \notin JoinActionsHandlers
          /\ ~Dispatched(effects', "updateSettings")
          /\ ~Dispatched(effects', "joinConference")
          /\ ~DispatchedFlag(effects', "setJoinByPhoneDialogVisiblity", TRUE)
          /\ Dispatched(effects', "joinConferenceWithoutAudio") =>
                handler' = "dialog.joinConferenceWithoutAudio"
          /\ state' = state ]_vars

\* with the join actions hidden the dialog has joined without audio, and the
\* dropdown flag is still set
C6_Witness ==
    /\ ~props.showJoinActions
    /\ Len(hist) >= 2
    /\ Past(2).handler = "componentDidUpdate"
    /\ handler = "dialog.joinConferenceWithoutAudio"
    /\ state.showJoinByPhoneButtons

\* C7: while hasJoinByPhoneButton is false _showDialog does not run, nothing
\* dispatches setJoinByPhoneDialogVisiblity(true) and the dialog does not
\* become visible; join without audio stays on offer in the dropdown.
C7_NoPhoneOptionWithoutButton ==
    /\ [][ ~props.hasJoinByPhoneButton =>
             /\ handler' # "_showDialog"
             /\ ~DispatchedFlag(effects', "setJoinByPhoneDialogVisiblity", TRUE)
             /\ ~(~props.showDialog /\ props'.showDialog) ]_vars
    /\ []((/\ props.showJoinActions
           /\ state.showJoinByPhoneButtons
           /\ ~props.hasJoinByPhoneButton) => ENABLED DropdownJoinWithoutAudio)

\* without the phone button the dropdown was opened and joined without audio
C7_Witness ==
    /\ ~props.hasJoinByPhoneButton
    /\ props.showJoinActions
    /\ Len(hist) >= 2
    /\ Past(2).handler = "_onOptionsClick"
    /\ handler = "dropdown.joinConferenceWithoutAudio"
    /\ state.showJoinByPhoneButtons
    /\ ~props.showDialog

\* C8: _onToggleButtonClick dispatches setSkipPrejoin(!buttonIsToggled) and
\* nothing else: the prop flips, two consecutive clicks restore it, and the
\* dropdown flag and the dialog visibility are kept.
C8_SkipToggleFlips ==
    /\ [][ handler' = "_onToggleButtonClick" =>
             /\ effects' = << setSkipPrejoinAction(~props.buttonIsToggled) >>
             /\ props'.buttonIsToggled = ~props.buttonIsToggled
             /\ state' = state
             /\ props'.showDialog = props.showDialog ]_vars
    /\ []((/\ Len(hist) >= 2
           /\ Past(1).handler = "_onToggleButtonClick"
           /\ Past(2).handler = "_onToggleButtonClick") =>
             props.buttonIsToggled = Past(2).toggled)

\* two consecutive clicks on a set toggle, with dropdown and dialog shown
C8_Witness ==
    /\ Len(hist) >= 2
    /\ Past(1).handler = "_onToggleButtonClick" /\ ~Past(1).toggled
    /\ Past(2).handler = "_onToggleButtonClick" /\ Past(2).toggled
    /\ props.buttonIsToggled
    /\ state.showJoinByPhoneButtons
    /\ props.showDialog

\* C9: the dropdown flag is false at mount, and the name change, the joins,
\* the skip toggle, the closing of the dialog and a change of props keep it.
C9_DropdownFlagFrame ==
    /\ ~state.showJoinByPhoneButtons
    /\ [][ handler' \in DropdownPreservingHandlers => state' = state ]_vars

\* the dropdown was opened by the options click and survived a name change
C9_Witness ==
    /\ Len(hist) >= 2
    /\ Past(2).handler = "_onOptionsClick" /\ ~Past(2).open
    /\ Past(1).handler = "_setName"
    /\ state.showJoinByPhoneButtons

\* C10: _closeDialog dispatches setJoinByPhoneDialogVisiblity(false) and
\* nothing else: the dialog is hidden and the dropdown flag kept; and the
\* dialog, with its onClose, exists exactly when showDialog is true.
C10_CloseDialogOnlyHidesDialog ==
    /\ [][ handler' = "_closeDialog" =>
             /\ effects' = << setJoinByPhoneDialogVisiblityAction(FALSE) >>
             /\ ~props'.showDialog
             /\ state' = state ]_vars
    /\ []((ENABLED CloseDialog) <=> props.showDialog)

\* the dialog was closed with the join actions hidden and the dropdown flag set
C10_Witness ==
    /\ handler = "_closeDialog"
    /\ ~props.showJoinActions
    /\ state.showJoinByPhoneButtons
    /\ ~props.showDialog
====
